---- MODULE Spec2Model ----
(***************************************************************************)
(* State-machine models of four of the laboratory programs:                *)
(*   - the task priority queue (class TaskManager, U.LAB.10.cpp),          *)
(*   - the media library (InMemoryMediaRepository, User, Library and the   *)
(*     menu of main, U.LAB.8.cpp),                                         *)
(*   - the geometric figures (Figure, Square, Rectangle, Triangle,         *)
(*     U.LAB.5.cpp),                                                       *)
(*   - the employee department (Employee, Department, U.LAB.6q.cpp).       *)
(* The programs share nothing; each has its own variables, its own         *)
(* next-state relation and its own specification.                          *)
(***************************************************************************)
EXTENDS Integers, Sequences, FiniteSets, TLC

VARIABLES
    tasks_,     \* TaskManager::tasks_ : std::vector<Task>
    tmCall,     \* the last TaskManager call: its arguments, the vector before it, what it threw and returned
    storage_,   \* InMemoryMediaRepository::storage_ : std::vector<std::unique_ptr<IMedia>>
    index_,     \* InMemoryMediaRepository::index_ : std::map<MediaId, size_t>
    users_,     \* InMemoryUserManager::users_ : std::map<UserId, std::unique_ptr<User>>
    repoCall,   \* the last call of a repository method: arguments, repository before it, result
    menuPc,     \* where main of the library program is: "setup", "menu" or "exit"
    menuCall,   \* the last menu choice served: its inputs and whether it succeeded
    removedIds, \* history: the media IDs removeMedia has removed so far
    fig,        \* the object of the last constructor call: <<its type and sizes>>, <<>> if it threw
    figCall,    \* the last constructor or setter call: arguments, object before it, what it threw
    employees,  \* Department::employees : std::vector<std::shared_ptr<Employee>>
    depCall     \* the last Department call: its argument, the vector before it, what it returned

tmVars == <<tasks_, tmCall>>
libVars == <<storage_, index_, users_, repoCall, menuPc, menuCall, removedIds>>
figVars == <<fig, figCall>>
depVars == <<employees, depCall>>

vars == <<tasks_, tmCall, storage_, index_, users_, repoCall, menuPc, menuCall, removedIds,
          fig, figCall, employees, depCall>>

(***************************************************************************)
(* Bounds of the model.                                                    *)
(***************************************************************************)
MaxPriority == 2
MaxIndex == 4

Descriptions == {"Review Code", "Fix Critical Bug", "Write Documentation"}
Priorities == 0..MaxPriority
Indices == 0..MaxIndex
MaxStorage == 4
MaxSize == 3
MaxNegative == 1
MaxEmployees == 3

(***************************************************************************)
(* U.LAB.10.cpp : Task and TaskManager                                     *)
(***************************************************************************)

\* Task::Task(desc, prio): isCompleted is default-initialised to false.
Task(desc, prio) == [description |-> desc, priority |-> prio, isCompleted |-> FALSE]

\* A findTask that stops one element short of end().
findTask_StopsEarly(ts, description) ==
    IF \E i \in 1..(Len(ts) - 1) : ts[i].description = description
    THEN CHOOSE i \in 1..(Len(ts) - 1) :
            /\ ts[i].description = description
            /\ \A j \in 1..(i - 1) : ts[j].description # description
    ELSE Len(ts) + 1

\* TaskManager::findTask: std::find_if over tasks_. The result is the 1-based
\* position of the first task with that description, Len(ts) + 1 for end().
findTask(ts, description) ==
    IF \E i \in 1..Len(ts) : ts[i].description = description
    THEN CHOOSE i \in 1..Len(ts) :
            /\ ts[i].description = description
            /\ \A j \in 1..(i - 1) : ts[j].description # description
    ELSE Len(ts) + 1

\* The comparator of sortTasks: t1.priority > t2.priority.
sortComp(t1, t2) == t1.priority > t2.priority

\* The postcondition of std::sort under sortComp: no later element goes before
\* an earlier one.
IsSorted(s) == \A i \in 1..Len(s) : \A j \in (i + 1)..Len(s) : ~sortComp(s[j], s[i])

\* All rearrangements of a sequence.
PermsOf(s) ==
    LET n == Len(s)
        bij == { p \in [1..n -> 1..n] : \A i \in 1..n : \E j \in 1..n : p[j] = i }
    IN  { [i \in 1..n |-> s[p[i]]] : p \in bij }

\* A sortTasks whose comparator is t1.priority < t2.priority.
sortTasks_Ascending(ts) ==
    { s \in PermsOf(ts) :
        \A i \in 1..Len(s) : \A j \in (i + 1)..Len(s) : ~(s[j].priority < s[i].priority) }

\* TaskManager::sortTasks: std::sort is not stable, so tasks of equal priority
\* may come out in any order: every sorted rearrangement is a possible result.
sortTasks(ts) == { s \in PermsOf(ts) : IsSorted(s) }

\* std::vector::erase(begin() + index), index counted from 0.
erase(ts, index) == SubSeq(ts, 1, index) \o SubSeq(ts, index + 2, Len(ts))

\* TaskManager::addTask: the possible outcomes (exception thrown, vector after).
addTask(ts, description, priority) ==
    IF findTask(ts, description) # Len(ts) + 1
    THEN { [exc |-> "DuplicateTaskError", tasks |-> ts] }
    ELSE { [exc |-> "none", tasks |-> s] :
              s \in sortTasks(Append(ts, Task(description, priority))) }

\* A completeTask that erases tasks_.begin() instead of tasks_.begin() + index.
completeTask_ErasesFront(ts, index) ==
    IF index >= Len(ts)
    THEN [exc |-> "TaskNotFoundError", what |-> "index", tasks |-> ts]
    ELSE IF ts[index + 1].isCompleted
         THEN [exc |-> "TaskNotFoundError", what |-> "completed", tasks |-> ts]
         ELSE [exc |-> "none", what |-> "",
               tasks |-> erase([ts EXCEPT ![index + 1].isCompleted = TRUE], 0)]

\* TaskManager::completeTask(size_t index).
completeTask(ts, index) ==
    IF index >= Len(ts)
    THEN [exc |-> "TaskNotFoundError", what |-> "index", tasks |-> ts]
    ELSE IF ts[index + 1].isCompleted
         THEN [exc |-> "TaskNotFoundError", what |-> "completed", tasks |-> ts]
         ELSE [exc |-> "none", what |-> "",
               tasks |-> erase([ts EXCEPT ![index + 1].isCompleted = TRUE], index)]

\* TaskManager::getNextTask: ret is <<the task>>, <<>> when it throws.
getNextTask(ts) ==
    IF Len(ts) = 0
    THEN [exc |-> "NoTasksError", ret |-> <<>>]
    ELSE [exc |-> "none", ret |-> <<ts[1]>>]

\* A popNextTask that takes a vector of one task for an empty one.
popNextTask_OffByOne(ts) ==
    IF Len(ts) <= 1
    THEN [exc |-> "NoTasksError", ret |-> <<>>, tasks |-> ts]
    ELSE [exc |-> "none", ret |-> <<ts[1]>>, tasks |-> erase(ts, 0)]

\* TaskManager::popNextTask.
popNextTask(ts) ==
    IF Len(ts) = 0
    THEN [exc |-> "NoTasksError", ret |-> <<>>, tasks |-> ts]
    ELSE [exc |-> "none", ret |-> <<ts[1]>>, tasks |-> erase(ts, 0)]

\* The record of a call.
TmCall(op, description, priority, index, before, exc, what, ret) ==
    [op |-> op, description |-> description, priority |-> priority, index |-> index,
     before |-> before, exc |-> exc, what |-> what, ret |-> ret]

\* TaskManager manager; (the vector starts empty)
TmInit ==
    /\ tasks_ = <<>>
    /\ tmCall = TmCall("new", "", 0, 0, <<>>, "none", "", <<>>)

AddTask ==
    \E description \in Descriptions, priority \in Priorities :
        \E o \in addTask(tasks_, description, priority) :
            /\ tasks_' = o.tasks
            /\ tmCall' = TmCall("addTask", description, priority, 0, tasks_, o.exc, "", <<>>)

CompleteTask ==
    \E index \in Indices :
        LET o == completeTask(tasks_, index) IN
            /\ tasks_' = o.tasks
            /\ tmCall' = TmCall("completeTask", "", 0, index, tasks_, o.exc, o.what, <<>>)

GetNextTask ==
    LET o == getNextTask(tasks_) IN
        /\ tasks_' = tasks_
        /\ tmCall' = TmCall("getNextTask", "", 0, 0, tasks_, o.exc, "", o.ret)

PopNextTask ==
    LET o == popNextTask(tasks_) IN
        /\ tasks_' = o.tasks
        /\ tmCall' = TmCall("popNextTask", "", 0, 0, tasks_, o.exc, "", o.ret)


(***************************************************************************)
(* U.LAB.8.cpp : the media library                                         *)
(***************************************************************************)

MediaIds == {"B101", "A201", "B102"}
Titles == {"The Martian", "Dune Audiobook"}
UserIds == {"U001", "U002", "U003"}

\* A unique_ptr or raw pointer is <<>> when null, <<object>> otherwise.
NullPtr == <<>>

\* Book(id, title, author) / Audio(id, title, duration): what IMedia shows of them.
Book(id, title) == [id |-> id, title |-> title, type |-> "Book"]
Audio(id, title) == [id |-> id, title |-> title, type |-> "Audio"]

\* The media objects the calls are made with.
MediaObjects ==
    { Book(id, title) : id \in {"B101", "B102"}, title \in Titles }
        \cup { Audio("A201", title) : title \in Titles }

\* std::map::erase(key).
MapErase(m, key) == [k \in DOMAIN m \ {key} |-> m[k]]

\* An addMedia without the index_.count(id) check: index_[id] is overwritten.
addMedia_NoDuplicateCheck(storage, index, media) ==
    IF media = NullPtr
    THEN [ret |-> FALSE, storage |-> storage, index |-> index]
    ELSE [ret |-> TRUE,
          storage |-> Append(storage, media),
          index |-> (media[1].id :> Len(storage)) @@ index]

\* InMemoryMediaRepository::addMedia(std::unique_ptr<IMedia> media).
addMedia(storage, index, media) ==
    IF media = NullPtr
    THEN [ret |-> FALSE, storage |-> storage, index |-> index]
    ELSE IF media[1].id \in DOMAIN index
         THEN [ret |-> FALSE, storage |-> storage, index |-> index]
         ELSE [ret |-> TRUE,
               storage |-> Append(storage, media),
               index |-> (media[1].id :> Len(storage)) @@ index]

\* A removeMedia that resets the slot and forgets index_.erase(id).
removeMedia_KeepsIndex(storage, index, id) ==
    IF id \in DOMAIN index
    THEN [ret |-> TRUE,
          storage |-> [storage EXCEPT ![index[id] + 1] = NullPtr],
          index |-> index]
    ELSE [ret |-> FALSE, storage |-> storage, index |-> index]

\* InMemoryMediaRepository::removeMedia(id): the slot is reset, never erased.
removeMedia(storage, index, id) ==
    IF id \in DOMAIN index
    THEN [ret |-> TRUE,
          storage |-> [storage EXCEPT ![index[id] + 1] = NullPtr],
          index |-> MapErase(index, id)]
    ELSE [ret |-> FALSE, storage |-> storage, index |-> index]

\* InMemoryMediaRepository::findMedia(id).
findMedia(storage, index, id) ==
    IF id \in DOMAIN index THEN storage[index[id] + 1] ELSE NullPtr

\* InMemoryMediaRepository::getAllMedia(): the non-null slots in storage order.
getAllMedia(storage) == SelectSeq(storage, LAMBDA ptr : ptr # NullPtr)

\* InMemoryMediaRepository::exists(id).
exists(index, id) == id \in DOMAIN index

\* User::User(id, name): nothing issued.
User(name) == [name |-> name, issuedMediaIds_ |-> <<>>]

\* User::hasMedia(mediaId).
hasMedia(user, mediaId) ==
    \E i \in 1..Len(user.issuedMediaIds_) : user.issuedMediaIds_[i] = mediaId

\* User::issueMedia(mediaId).
issueMedia(user, mediaId) ==
    [user EXCEPT !.issuedMediaIds_ = Append(@, mediaId)]

\* User::returnMedia(mediaId): std::remove + erase drops every occurrence.
returnMedia(user, mediaId) ==
    [user EXCEPT !.issuedMediaIds_ = SelectSeq(@, LAMBDA m : m # mediaId)]

\* InMemoryUserManager::addUser(user) for a non-null user.
addUser(users, userId, name) ==
    IF userId \in DOMAIN users
    THEN [ret |-> FALSE, users |-> users]
    ELSE [ret |-> TRUE, users |-> (userId :> User(name)) @@ users]

\* InMemoryUserManager::isMediaIssued(mediaId).
isMediaIssued(users, mediaId) == \E u \in DOMAIN users : hasMedia(users[u], mediaId)

\* Library::issueMediaToUser(mediaId, userId).
issueMediaToUser(storage, index, users, mediaId, userId) ==
    IF userId \notin DOMAIN users
    THEN [ret |-> FALSE, users |-> users]
    ELSE IF findMedia(storage, index, mediaId) = NullPtr
         THEN [ret |-> FALSE, users |-> users]
         ELSE IF isMediaIssued(users, mediaId)
              THEN [ret |-> FALSE, users |-> users]
              ELSE [ret |-> TRUE,
                    users |-> [users EXCEPT ![userId] = issueMedia(@, mediaId)]]

\* Library::returnMediaFromUser(mediaId, userId).
returnMediaFromUser(users, mediaId, userId) ==
    IF userId \notin DOMAIN users
    THEN [ret |-> FALSE, users |-> users]
    ELSE IF ~hasMedia(users[userId], mediaId)
         THEN [ret |-> FALSE, users |-> users]
         ELSE [ret |-> TRUE,
               users |-> [users EXCEPT ![userId] = returnMedia(@, mediaId)]]

\* The record of a repository call.
RepoCall(op, media, id, storage, index, ret, ptr, list) ==
    [op |-> op, media |-> media, id |-> id, storageBefore |-> storage,
     indexBefore |-> index, ret |-> ret, ptr |-> ptr, list |-> list]

\* The record of a menu choice.
MenuCall(op, mediaId, userId, ret) ==
    [op |-> op, mediaId |-> mediaId, userId |-> userId, ret |-> ret]

\* InMemoryMediaRepository mediaRepo; InMemoryUserManager userManager;
LibInit ==
    /\ storage_ = <<>>
    /\ index_ = <<>>
    /\ users_ = <<>>
    /\ repoCall = RepoCall("new", NullPtr, "", <<>>, <<>>, FALSE, NullPtr, <<>>)
    /\ menuPc = "setup"
    /\ menuCall = MenuCall("none", "", "", FALSE)
    /\ removedIds = {}

\* ---- calls of the repository's methods ----

AddMedia ==
    /\ Len(storage_) < MaxStorage
    /\ \E media \in {NullPtr} \cup { <<m>> : m \in MediaObjects } :
        LET o == addMedia(storage_, index_, media) IN
            /\ storage_' = o.storage
            /\ index_' = o.index
            /\ repoCall' = RepoCall("addMedia", media,
                                    IF media = NullPtr THEN "" ELSE media[1].id,
                                    storage_, index_, o.ret, NullPtr, <<>>)
    /\ UNCHANGED removedIds

RemoveMedia ==
    \E id \in MediaIds :
        LET o == removeMedia(storage_, index_, id) IN
            /\ storage_' = o.storage
            /\ index_' = o.index
            /\ repoCall' = RepoCall("removeMedia", NullPtr, id, storage_, index_,
                                    o.ret, NullPtr, <<>>)
            /\ removedIds' = IF o.ret THEN removedIds \cup {id} ELSE removedIds

FindMedia ==
    \E id \in MediaIds :
        /\ UNCHANGED <<storage_, index_, removedIds>>
        /\ repoCall' = RepoCall("findMedia", NullPtr, id, storage_, index_, FALSE,
                                findMedia(storage_, index_, id), <<>>)

GetAllMedia ==
    /\ UNCHANGED <<storage_, index_, removedIds>>
    /\ repoCall' = RepoCall("getAllMedia", NullPtr, "", storage_, index_, FALSE,
                            NullPtr, getAllMedia(storage_))

Exists ==
    \E id \in MediaIds :
        /\ UNCHANGED <<storage_, index_, removedIds>>
        /\ repoCall' = RepoCall("exists", NullPtr, id, storage_, index_,
                                exists(index_, id), NullPtr, <<>>)

\* ---- main: setupInitialData, then the menu loop ----

\* setupInitialData(mediaRepo, userManager).
SetupInitialData ==
    /\ menuPc = "setup"
    /\ LET m1 == addMedia(storage_, index_, <<Book("B101", "The Martian")>>)
           m2 == addMedia(m1.storage, m1.index, <<Audio("A201", "Dune Audiobook")>>)
           m3 == addMedia(m2.storage, m2.index, <<Book("B102", "Neuromancer")>>)
           u1 == addUser(users_, "U001", "Alice")
           u2 == addUser(u1.users, "U002", "Bob")
       IN  /\ storage_' = m3.storage
           /\ index_' = m3.index
           /\ users_' = u2.users
    /\ menuPc' = "menu"
    /\ menuCall' = MenuCall("setup", "", "", TRUE)

\* case 1: handleAddMedia(mediaRepo). An unknown type adds nothing.
MenuAddMedia ==
    /\ menuPc = "menu"
    /\ Len(storage_) < MaxStorage
    /\ \E type \in {"book", "audio", "other"}, id \in MediaIds, title \in Titles :
        LET media == IF type = "book" THEN <<Book(id, title)>>
                     ELSE <<Audio(id, title)>>
            o == IF type = "other"
                 THEN [ret |-> FALSE, storage |-> storage_, index |-> index_]
                 ELSE addMedia(storage_, index_, media)
        IN  /\ storage_' = o.storage
            /\ index_' = o.index
            /\ menuCall' = MenuCall("addMedia", id, "", o.ret)
    /\ UNCHANGED <<users_, menuPc>>

\* case 2: library.returnMediaFromUser(mediaId, "") and then
\* mediaRepo.removeMedia(mediaId).
MenuRemoveMedia ==
    /\ menuPc = "menu"
    /\ \E mediaId \in MediaIds :
        LET r == returnMediaFromUser(users_, mediaId, "")
            o == removeMedia(storage_, index_, mediaId)
        IN  /\ users_' = r.users
            /\ storage_' = o.storage
            /\ index_' = o.index
            /\ menuCall' = MenuCall("removeMedia", mediaId, "", o.ret)
    /\ UNCHANGED menuPc

\* case 3: handleAddUser(userManager). std::cin >> id reads a non-empty token.
MenuAddUser ==
    /\ menuPc = "menu"
    /\ \E userId \in UserIds :
        LET o == addUser(users_, userId, "Carol") IN
            /\ users_' = o.users
            /\ menuCall' = MenuCall("addUser", "", userId, o.ret)
    /\ UNCHANGED <<storage_, index_, menuPc>>

\* case 4: library.issueMediaToUser(mediaId, userId).
MenuIssueMedia ==
    /\ menuPc = "menu"
    /\ \E mediaId \in MediaIds, userId \in UserIds :
        LET o == issueMediaToUser(storage_, index_, users_, mediaId, userId) IN
            /\ users_' = o.users
            /\ menuCall' = MenuCall("issueMedia", mediaId, userId, o.ret)
    /\ UNCHANGED <<storage_, index_, menuPc>>

\* case 5: library.returnMediaFromUser(mediaId, userId).
MenuReturnMedia ==
    /\ menuPc = "menu"
    /\ \E mediaId \in MediaIds, userId \in UserIds :
        LET o == returnMediaFromUser(users_, mediaId, userId) IN
            /\ users_' = o.users
            /\ menuCall' = MenuCall("returnMedia", mediaId, userId, o.ret)
    /\ UNCHANGED <<storage_, index_, menuPc>>

\* case 0: the loop ends.
MenuExit ==
    /\ menuPc = "menu"
    /\ menuPc' = "exit"
    /\ menuCall' = MenuCall("exit", "", "", TRUE)
    /\ UNCHANGED <<storage_, index_, users_>>


(***************************************************************************)
(* U.LAB.5.cpp : Figure, Square, Rectangle, Triangle                       *)
(***************************************************************************)

\* A double is [nan |-> FALSE, val |-> an integer], or NaN. The integers stand
\* for doubles of the same value, on which +, >= and <= are exact.
Num(v) == [nan |-> FALSE, val |-> v]
NaN == [nan |-> TRUE, val |-> 0]
Doubles == { Num(v) : v \in (0 - MaxNegative)..MaxSize } \cup {NaN}

\* double + double, double <= double, double >= 0: false on NaN.
Plus(x, y) == IF x.nan \/ y.nan THEN NaN ELSE Num(x.val + y.val)
LessEq(x, y) == ~x.nan /\ ~y.nan /\ x.val <= y.val
Less(x, y) == ~x.nan /\ ~y.nan /\ x.val < y.val
Zero == Num(0)

\* Figure::Figure(): size1(0), size2(0), size3(0), under the derived type.
Figure(type) == [type |-> type, size1 |-> Zero, size2 |-> Zero, size3 |-> Zero]

\* Figure::setSize1 (Square::setSide, Rectangle::setWidth, Triangle::setA).
setSize1(f, p1) ==
    IF LessEq(Zero, p1)
    THEN [exc |-> "none", fig |-> [f EXCEPT !.size1 = p1]]
    ELSE [exc |-> "invalid_argument", fig |-> f]

\* Figure::setSize2 (Rectangle::setHeight, Triangle::setB).
setSize2(f, p2) ==
    IF LessEq(Zero, p2)
    THEN [exc |-> "none", fig |-> [f EXCEPT !.size2 = p2]]
    ELSE [exc |-> "invalid_argument", fig |-> f]

\* Figure::setSize3 (Triangle::setC).
setSize3(f, p3) ==
    IF LessEq(Zero, p3)
    THEN [exc |-> "none", fig |-> [f EXCEPT !.size3 = p3]]
    ELSE [exc |-> "invalid_argument", fig |-> f]

\* A constructor body of three setter calls: the first throw ends it.
SetAll(f, p1, p2, p3) ==
    LET r1 == setSize1(f, p1)
        r2 == setSize2(r1.fig, p2)
        r3 == setSize3(r2.fig, p3)
    IN  IF r1.exc # "none" THEN r1
        ELSE IF r2.exc # "none" THEN r2
        ELSE r3

\* Square::Square(side).
Square(side) == SetAll(Figure("Square"), side, Zero, Zero)

\* Rectangle::Rectangle(width, height).
Rectangle(width, height) == SetAll(Figure("Rectangle"), width, height, Zero)

\* A Triangle constructor whose check uses < where the code has <=.
Triangle_StrictCheck(a, b, c) ==
    IF Less(Plus(a, b), c) \/ Less(Plus(a, c), b) \/ Less(Plus(b, c), a)
    THEN [exc |-> "invalid_argument", fig |-> Figure("Triangle")]
    ELSE SetAll(Figure("Triangle"), a, b, c)

\* Triangle::Triangle(a, b, c).
Triangle(a, b, c) ==
    IF LessEq(Plus(a, b), c) \/ LessEq(Plus(a, c), b) \/ LessEq(Plus(b, c), a)
    THEN [exc |-> "invalid_argument", fig |-> Figure("Triangle")]
    ELSE SetAll(Figure("Triangle"), a, b, c)

\* The record of a constructor or setter call.
FigCall(op, args, before, exc) ==
    [op |-> op, args |-> args, before |-> before, exc |-> exc]

\* No figure has been constructed.
FigInit ==
    /\ fig = <<>>
    /\ figCall = FigCall("none", <<>>, <<>>, "none")

\* A constructor that throws leaves no object.
Constructed(op, args, o) ==
    /\ fig' = IF o.exc = "none" THEN <<o.fig>> ELSE <<>>
    /\ figCall' = FigCall(op, args, <<>>, o.exc)

NewSquare ==
    \E side \in Doubles : Constructed("Square", <<side>>, Square(side))

NewRectangle ==
    \E width \in Doubles, height \in Doubles :
        Constructed("Rectangle", <<width, height>>, Rectangle(width, height))

NewTriangle ==
    \E a \in Doubles, b \in Doubles, c \in Doubles :
        Constructed("Triangle", <<a, b, c>>, Triangle(a, b, c))

SetSize1 ==
    /\ fig # <<>>
    /\ \E p1 \in Doubles :
        LET o == setSize1(fig[1], p1) IN
            /\ fig' = <<o.fig>>
            /\ figCall' = FigCall("setSize1", <<p1>>, fig, o.exc)

SetSize2 ==
    /\ fig # <<>>
    /\ \E p2 \in Doubles :
        LET o == setSize2(fig[1], p2) IN
            /\ fig' = <<o.fig>>
            /\ figCall' = FigCall("setSize2", <<p2>>, fig, o.exc)

SetSize3 ==
    /\ fig # <<>>
    /\ \E p3 \in Doubles :
        LET o == setSize3(fig[1], p3) IN
            /\ fig' = <<o.fig>>
            /\ figCall' = FigCall("setSize3", <<p3>>, fig, o.exc)

(***************************************************************************)
(* U.LAB.6q.cpp : Employee and Department                                  *)
(***************************************************************************)

EmployeeIds == {1, 2, 3}

\* What removeEmployee reads of an Employee (its id), with the name and the
\* derived class, which tell apart two employees of one id.
FullTimeEmployee(id, name) == [id |-> id, name |-> name, kind |-> "FullTime"]
PartTimeEmployee(id, name) == [id |-> id, name |-> name, kind |-> "PartTime"]
ContractEmployee(id, name) == [id |-> id, name |-> name, kind |-> "Contract"]

\* The employee objects the calls are made with: two of every id.
EmployeeObjects ==
    { FullTimeEmployee(1, "Alice"), PartTimeEmployee(1, "Bob"),
      PartTimeEmployee(2, "Bob"), ContractEmployee(2, "Charlie"),
      ContractEmployee(3, "Charlie"), FullTimeEmployee(3, "Alice") }

\* Department::addEmployee (both overloads): a null pointer is ignored, and
\* nothing looks for an employee of the same id.
addEmployee(emps, emp) == IF emp # NullPtr THEN Append(emps, emp) ELSE emps

\* A removeEmployee that erases only the first employee of that id.
removeEmployee_FirstOnly(emps, targetId) ==
    LET hits == { i \in 1..Len(emps) : emps[i][1].id = targetId }
        first == CHOOSE i \in hits : \A j \in hits : i <= j
    IN  IF hits = {}
        THEN [ret |-> FALSE, employees |-> emps]
        ELSE [ret |-> TRUE,
              employees |-> SubSeq(emps, 1, first - 1) \o SubSeq(emps, first + 1, Len(emps))]

\* Department::removeEmployee(targetId): std::remove_if keeps the others in
\* their order, erase drops the tail; the result is whether the size changed.
removeEmployee(emps, targetId) ==
    LET after == SelectSeq(emps, LAMBDA e : ~(e[1].id = targetId))
    IN  [ret |-> Len(after) # Len(emps), employees |-> after]

\* The record of a Department call.
DepCall(op, emp, targetId, before, ret) ==
    [op |-> op, emp |-> emp, targetId |-> targetId, before |-> before, ret |-> ret]

\* Department rnd("R&D"): no employees.
DepInit ==
    /\ employees = <<>>
    /\ depCall = DepCall("new", NullPtr, 0, <<>>, FALSE)

AddEmployee ==
    /\ Len(employees) < MaxEmployees
    /\ \E emp \in {NullPtr} \cup { <<e>> : e \in EmployeeObjects } :
        /\ employees' = addEmployee(employees, emp)
        /\ depCall' = DepCall("addEmployee", emp, 0, employees, FALSE)

RemoveEmployee ==
    \E targetId \in EmployeeIds :
        LET o == removeEmployee(employees, targetId) IN
            /\ employees' = o.employees
            /\ depCall' = DepCall("removeEmployee", NullPtr, targetId, employees, o.ret)

Init == TmInit /\ LibInit /\ FigInit /\ DepInit

\* The task manager program.
Next ==
    \/ AddTask /\ UNCHANGED <<libVars, figVars, depVars>>
    \/ CompleteTask /\ UNCHANGED <<libVars, figVars, depVars>>
    \/ GetNextTask /\ UNCHANGED <<libVars, figVars, depVars>>
    \/ PopNextTask /\ UNCHANGED <<libVars, figVars, depVars>>

Spec == Init /\ [][Next]_vars

\* The repository class under arbitrary calls of its methods.
NextRepository ==
    \/ AddMedia /\ UNCHANGED <<tmVars, figVars, depVars, users_, menuPc, menuCall>>
    \/ RemoveMedia /\ UNCHANGED <<tmVars, figVars, depVars, users_, menuPc, menuCall>>
    \/ FindMedia /\ UNCHANGED <<tmVars, figVars, depVars, users_, menuPc, menuCall>>
    \/ GetAllMedia /\ UNCHANGED <<tmVars, figVars, depVars, users_, menuPc, menuCall>>
    \/ Exists /\ UNCHANGED <<tmVars, figVars, depVars, users_, menuPc, menuCall>>

SpecRepository == Init /\ [][NextRepository]_vars

\* main of the library program.
NextLibrary ==
    \/ SetupInitialData /\ UNCHANGED <<tmVars, figVars, depVars, repoCall, removedIds>>
    \/ MenuAddMedia /\ UNCHANGED <<tmVars, figVars, depVars, repoCall, removedIds>>
    \/ MenuRemoveMedia /\ UNCHANGED <<tmVars, figVars, depVars, repoCall, removedIds>>
    \/ MenuAddUser /\ UNCHANGED <<tmVars, figVars, depVars, repoCall, removedIds>>
    \/ MenuIssueMedia /\ UNCHANGED <<tmVars, figVars, depVars, repoCall, removedIds>>
    \/ MenuReturnMedia /\ UNCHANGED <<tmVars, figVars, depVars, repoCall, removedIds>>
    \/ MenuExit /\ UNCHANGED <<tmVars, figVars, depVars, repoCall, removedIds>>

SpecLibrary == Init /\ [][NextLibrary]_vars

\* The figure classes under arbitrary constructions and setter calls.
NextFigure ==
    \/ NewSquare /\ UNCHANGED <<tmVars, libVars, depVars>>
    \/ NewRectangle /\ UNCHANGED <<tmVars, libVars, depVars>>
    \/ NewTriangle /\ UNCHANGED <<tmVars, libVars, depVars>>
    \/ SetSize1 /\ UNCHANGED <<tmVars, libVars, depVars>>
    \/ SetSize2 /\ UNCHANGED <<tmVars, libVars, depVars>>
    \/ SetSize3 /\ UNCHANGED <<tmVars, libVars, depVars>>

SpecFigure == Init /\ [][NextFigure]_vars

\* The department under arbitrary additions and removals.
NextDepartment ==
    \/ AddEmployee /\ UNCHANGED <<tmVars, libVars, figVars>>
    \/ RemoveEmployee /\ UNCHANGED <<tmVars, libVars, figVars>>

SpecDepartment == Init /\ [][NextDepartment]_vars

(***************************************************************************)
(* Properties of TaskManager.                                              *)
(***************************************************************************)

HasDescription(ts, description) == \E i \in 1..Len(ts) : ts[i].description = description

\* s without its element at (1-based) position k, the others in their order.
WithoutPosition(s, k) == [i \in 1..(Len(s) - 1) |-> IF i < k THEN s[i] ELSE s[i + 1]]

\* C1: addTask(description, priority) throws DuplicateTaskError whenever a task
\* with an equal description is in the manager, and then the task list is left
\* exactly as it was (same tasks, same order); otherwise nothing is thrown and
\* the list holds the old tasks and the new one.
C1_AddTaskRejectsDuplicate ==
    tmCall.op = "addTask" =>
        IF HasDescription(tmCall.before, tmCall.description)
        THEN /\ tmCall.exc = "DuplicateTaskError"
             /\ tasks_ = tmCall.before
        ELSE /\ tmCall.exc = "none"
             /\ tasks_ \in PermsOf(Append(tmCall.before,
                                          Task(tmCall.description, tmCall.priority)))

\* A duplicate was refused while the manager held several tasks.
C1_Witness ==
    /\ tmCall.op = "addTask"
    /\ tmCall.exc = "DuplicateTaskError"
    /\ Len(tmCall.before) >= 2
    /\ tmCall.before[2].description = tmCall.description

\* C2: on a non-empty manager, after any sequence of addTask, completeTask and
\* popNextTask calls, getNextTask returns a task whose priority is at least the
\* priority of every task in the manager; popNextTask returns that same task
\* and removes exactly it: the size drops by one and all other tasks stay.
C2_NextTaskHasHighestPriority ==
    /\ (tmCall.op = "getNextTask" /\ tmCall.before # <<>>) =>
          /\ Len(tmCall.ret) = 1
          /\ \E i \in 1..Len(tmCall.before) : tmCall.before[i] = tmCall.ret[1]
          /\ \A i \in 1..Len(tmCall.before) :
                tmCall.ret[1].priority >= tmCall.before[i].priority
          /\ tasks_ = tmCall.before
    /\ (tmCall.op = "popNextTask" /\ tmCall.before # <<>>) =>
          /\ tmCall.ret = getNextTask(tmCall.before).ret
          /\ \A i \in 1..Len(tmCall.before) :
                tmCall.ret[1].priority >= tmCall.before[i].priority
          /\ Len(tasks_) = Len(tmCall.before) - 1
          /\ \E k \in 1..Len(tmCall.before) :
                /\ tmCall.before[k] = tmCall.ret[1]
                /\ tasks_ = WithoutPosition(tmCall.before, k)

\* popNextTask took the highest of three tasks of which two have lower priority.
C2_Witness ==
    /\ tmCall.op = "popNextTask"
    /\ Len(tmCall.before) = 3
    /\ tmCall.ret[1].priority > tmCall.before[2].priority
    /\ tmCall.before[2].priority > tmCall.before[3].priority

\* C3: getNextTask and popNextTask throw NoTasksError exactly when the manager
\* holds no tasks, and the manager is still empty after the throw.
C3_NoTasksErrorIffEmpty ==
    tmCall.op \in {"getNextTask", "popNextTask"} =>
        /\ (tmCall.exc = "NoTasksError") <=> (Len(tmCall.before) = 0)
        /\ tmCall.exc \in {"NoTasksError", "none"}
        /\ tmCall.exc = "NoTasksError" => tasks_ = <<>>

\* popNextTask threw on a manager that had been emptied.
C3_Witness ==
    /\ tmCall.op = "popNextTask"
    /\ tmCall.exc = "NoTasksError"
    /\ tasks_ = <<>>

\* C4: completeTask(index) throws TaskNotFoundError when index >= the number of
\* tasks and leaves the list unchanged; for a valid index it removes exactly
\* the task at that position of the priority-sorted list and keeps the
\* relative order of all other tasks.
C4_CompleteTaskByIndex ==
    tmCall.op = "completeTask" =>
        /\ IsSorted(tmCall.before)
        /\ IF tmCall.index >= Len(tmCall.before)
           THEN /\ tmCall.exc = "TaskNotFoundError"
                /\ tasks_ = tmCall.before
           ELSE /\ tmCall.exc = "none"
                /\ tasks_ = WithoutPosition(tmCall.before, tmCall.index + 1)

\* The middle one of three tasks was completed.
C4_Witness ==
    /\ tmCall.op = "completeTask"
    /\ tmCall.index = 1
    /\ Len(tmCall.before) = 3
    /\ tmCall.exc = "none"

\* No task held by the manager is marked completed: Task's constructor clears
\* the flag, and completeTask erases the task in the call that sets it. The
\* "already completed" throw of completeTask is therefore never taken (C5).
NoStoredTaskIsCompleted ==
    /\ \A i \in 1..Len(tasks_) : ~tasks_[i].isCompleted
    /\ tmCall.what # "completed"

(***************************************************************************)
(* Properties of the media library.                                        *)
(***************************************************************************)

\* The IDs of the media a storage vector holds.
StoredIds(storage) ==
    { storage[i][1].id : i \in { j \in 1..Len(storage) : storage[j] # NullPtr } }

\* C6: the Remove Media menu action (option 2) clears any outstanding issue of
\* the media before removing it: after a successful removal of mediaId, no
\* user's issued list contains mediaId.
C6_RemoveClearsIssue ==
    (menuCall.op = "removeMedia" /\ menuCall.ret) =>
        \A u \in DOMAIN users_ :
            \A i \in 1..Len(users_[u].issuedMediaIds_) :
                users_[u].issuedMediaIds_[i] # menuCall.mediaId

\* C7: addMedia returns false and leaves the repository unchanged when the
\* media pointer is null or a media with the same ID is currently stored;
\* otherwise it returns true and findMedia(id) returns the added item. (That a
\* removed ID can be added again is the case C7_Witness reaches.)
C7_AddMediaRejectsNullAndDuplicate ==
    repoCall.op = "addMedia" =>
        IF repoCall.media = NullPtr
        THEN /\ repoCall.ret = FALSE
             /\ storage_ = repoCall.storageBefore
             /\ index_ = repoCall.indexBefore
        ELSE IF repoCall.media[1].id \in StoredIds(repoCall.storageBefore)
             THEN /\ repoCall.ret = FALSE
                  /\ storage_ = repoCall.storageBefore
                  /\ index_ = repoCall.indexBefore
             ELSE /\ repoCall.ret = TRUE
                  /\ findMedia(storage_, index_, repoCall.media[1].id) = repoCall.media

\* An ID that had been removed was added again, with another title, and is found.
C7_Witness ==
    /\ repoCall.op = "addMedia"
    /\ repoCall.ret = TRUE
    /\ repoCall.id \in removedIds
    /\ \E i \in 1..Len(storage_) : storage_[i] = NullPtr
    /\ findMedia(storage_, index_, repoCall.id) = repoCall.media
    /\ repoCall.media[1].title = "Dune Audiobook"
    /\ repoCall.media[1].id = "B101"

\* C8: removeMedia(id) returns true exactly when id is currently stored;
\* afterwards exists(id) is false, findMedia(id) is null and getAllMedia does
\* not contain it, while every other stored media is still returned by
\* findMedia under its own ID and by getAllMedia in insertion order (a media
\* that addMedia accepts goes last in getAllMedia).
C8_RemoveMediaRemovesOnlyThat ==
    /\ repoCall.op = "removeMedia" =>
          /\ repoCall.ret <=> (repoCall.id \in StoredIds(repoCall.storageBefore))
          /\ ~exists(index_, repoCall.id)
          /\ findMedia(storage_, index_, repoCall.id) = NullPtr
          /\ \A i \in 1..Len(getAllMedia(storage_)) :
                getAllMedia(storage_)[i][1].id # repoCall.id
          /\ \A other \in StoredIds(repoCall.storageBefore) \ {repoCall.id} :
                /\ findMedia(storage_, index_, other) # NullPtr
                /\ findMedia(storage_, index_, other)[1].id = other
                /\ findMedia(storage_, index_, other) =
                      findMedia(repoCall.storageBefore, repoCall.indexBefore, other)
          /\ getAllMedia(storage_) =
                SelectSeq(getAllMedia(repoCall.storageBefore),
                          LAMBDA ptr : ptr[1].id # repoCall.id)
    /\ (repoCall.op = "addMedia" /\ repoCall.ret) =>
          getAllMedia(storage_) =
              Append(getAllMedia(repoCall.storageBefore), repoCall.media)

\* The middle one of three stored media was removed and the other two remain.
C8_Witness ==
    /\ repoCall.op = "removeMedia"
    /\ repoCall.ret = TRUE
    /\ Len(getAllMedia(repoCall.storageBefore)) = 3
    /\ getAllMedia(repoCall.storageBefore)[2][1].id = repoCall.id
    /\ Len(getAllMedia(storage_)) = 2

(***************************************************************************)
(* Properties of the figures.                                              *)
(***************************************************************************)

IsPositive(x) == ~x.nan /\ x.val > 0

\* C9: the size setters (setSize1/2/3, and through them Square::setSide,
\* Rectangle::setWidth/setHeight, Triangle::setA/B/C and the Square and
\* Rectangle constructors) throw std::invalid_argument for every value that is
\* not positive, zero included, and leave the stored size unchanged when they
\* throw.
C9_SettersRejectNonPositive ==
    /\ figCall.op \in {"setSize1", "setSize2", "setSize3"} =>
          /\ ~IsPositive(figCall.args[1]) => figCall.exc = "invalid_argument"
          /\ figCall.exc = "invalid_argument" => fig = figCall.before
    /\ figCall.op \in {"Square", "Rectangle"} =>
          /\ (\E i \in 1..Len(figCall.args) : ~IsPositive(figCall.args[i])) =>
                figCall.exc = "invalid_argument"
          /\ figCall.exc = "invalid_argument" => fig = <<>>

\* C10: Triangle(a, b, c) throws std::invalid_argument whenever the sides
\* violate the strict triangle inequality or any side is not positive; a
\* Triangle object is constructed only when all three sides are positive and
\* each is strictly less than the sum of the other two.
C10_TriangleOnlyWhenValid ==
    figCall.op = "Triangle" =>
        LET a == figCall.args[1]
            b == figCall.args[2]
            c == figCall.args[3]
            valid == /\ IsPositive(a) /\ IsPositive(b) /\ IsPositive(c)
                     /\ a.val < b.val + c.val
                     /\ b.val < a.val + c.val
                     /\ c.val < a.val + b.val
        IN  /\ ~valid => (figCall.exc = "invalid_argument" /\ fig = <<>>)
            /\ figCall.exc = "none" =>
                  /\ valid
                  /\ fig = <<[type |-> "Triangle", size1 |-> a, size2 |-> b, size3 |-> c]>>

\* Triangle(0, 2, 2) was refused although no setter refuses a zero side.
C10_Witness ==
    /\ figCall.op = "Triangle"
    /\ figCall.args = <<Num(0), Num(2), Num(2)>>
    /\ figCall.exc = "invalid_argument"

(***************************************************************************)
(* Properties of the department.                                           *)
(***************************************************************************)

\* The positions of s whose employee has another id than targetId.
OtherPositions(s, targetId) == { i \in 1..Len(s) : s[i][1].id # targetId }

\* C11: removeEmployee(id) returns true if an employee with that ID was in the
\* department and false if none was found (department unchanged); after the
\* call no employee with that ID remains, and all other employees remain, in
\* their original relative order.
C11_RemoveEmployeeById ==
    depCall.op = "removeEmployee" =>
        LET before == depCall.before
            keep == OtherPositions(before, depCall.targetId)
        IN  /\ depCall.ret <=> (keep # 1..Len(before))
            /\ (keep = 1..Len(before)) => employees = before
            /\ \A i \in 1..Len(employees) : employees[i][1].id # depCall.targetId
            /\ Len(employees) = Cardinality(keep)
            /\ \A i \in keep :
                  employees[Cardinality({ j \in keep : j <= i })] = before[i]

\* Two employees of the removed id stood around a third, who alone remains.
C11_Witness ==
    /\ depCall.op = "removeEmployee"
    /\ depCall.ret = TRUE
    /\ Len(depCall.before) = 3
    /\ depCall.before[1][1].id = depCall.targetId
    /\ depCall.before[2][1].id # depCall.targetId
    /\ depCall.before[3][1].id = depCall.targetId
    /\ depCall.before[1] # depCall.before[3]
    /\ employees = <<depCall.before[2]>>

====
